---- MODULE Spec2Model ----
(***************************************************************************)
(* State-machine model of the Social-Media-API backend (api/views.py,      *)
(* api/models.py, api/serializers.py, api/tasks.py).                       *)
(*                                                                         *)
(* The relational store is the state: one variable per table.  A table is  *)
(* a sequence of rows in insertion order (the order of the auto-increment  *)
(* primary key and of the auto_now_add created_at column).  Every REST     *)
(* handler is an action; the handlers whose database queries can           *)
(* interleave with those of another request (follow, unfollow, like) are   *)
(* written as step functions, one step per database query, and are run     *)
(* either to completion in one action (a request that overlaps no other)   *)
(* or step by step by concurrent workers.                                  *)
(***************************************************************************)
EXTENDS Integers, Sequences, FiniteSets, TLC

\* ------------------------------------------------------------------ bounds
NumUsers == 3
MaxFollows == 2
MaxPosts == 1
MaxLikes == 2
MaxWrites == 2
MaxComments == 1
MaxClock == 2
MaxScheduled == 1
MaxDeliveries == 2
NumWorkers == 2

\* ---------------------------------------------------------------- accounts
\* Registered accounts (CustomUser rows), by primary key.  The username of
\* account i is the name i; name NumUsers + 1 belongs to no account.
Users == 1..NumUsers
Anonymous == 0
NoUser == 0
Callers == Users \cup {Anonymous}
Usernames == 1..(NumUsers + 1)
Workers == 1..NumWorkers
PostIds == 1..MaxPosts
\* Post.content values of a request body; "" is the blank value a TextField
\* refuses.
Contents == {"a", "b"}
Bios == {"", "bio"}
NoParam == 0

VARIABLES
  bio,            \* CustomUser.bio of every account
  follows,        \* Follow rows: [follower, following], in creation order
  posts,          \* Post rows: [id, user, content]
  creator,        \* history: the caller whose request created each post
  toggles,        \* history: the like requests served per account and post
  nextPostId,     \* next primary key of the Post table
  nextLikeId,     \* next primary key of the Like table
  likes,          \* Like rows: [id, user, post]
  comments,       \* Comment rows: [id, user, post, content]
  nextCommentId,  \* next primary key of the Comment table
  resp,           \* the response of the last request that completed
  procs,          \* the request each concurrent worker is serving
  writes,         \* requests so far that changed the store
  clock,          \* the server clock, in seconds
  queue           \* the deferred tasks accepted so far, with the posts each created

dbvars == <<bio, follows, posts, nextPostId, likes, nextLikeId, comments, nextCommentId>>
vars == <<bio, follows, posts, creator, toggles, nextPostId, likes, nextLikeId,
          comments, nextCommentId, resp, procs, writes,
                 clock, queue>>

\* ----------------------------------------------------------------- helpers
Range(s) == {s[i] : i \in 1..Len(s)}

\* The number of rows of table s equal to row.
Count(s, row) == Cardinality({i \in 1..Len(s) : s[i] = row})

\* All orders in which a database may return the rows of an unordered query.
Orderings(S) ==
  {q \in [1..Cardinality(S) -> S] : \A i, j \in 1..Cardinality(S) : i # j => q[i] # q[j]}

IdleProc ==
  [view |-> "idle", pc |-> "idle", caller |-> Anonymous, username |-> NoParam,
   post_id |-> 0, like_id |-> 0, status |-> 0, error |-> ""]

Proc(view, pc, caller, username, post_id, like_id, status, error) ==
  [view |-> view, pc |-> pc, caller |-> caller, username |-> username,
   post_id |-> post_id, like_id |-> like_id, status |-> status, error |-> error]

NoResp ==
  [view |-> "none", method |-> "", caller |-> Anonymous, username |-> NoParam,
   post_id |-> 0, content |-> "", status |-> 0, error |-> "", data |-> <<>>]

Response(view, method, caller, username, post_id, content, status, error, data) ==
  [view |-> view, method |-> method, caller |-> caller, username |-> username,
   post_id |-> post_id, content |-> content, status |-> status, error |-> error,
   data |-> data]

\* ------------------------------------------------------------- permissions
IsAuthenticated(caller) == caller # Anonymous

SAFE_METHODS == {"GET", "HEAD", "OPTIONS"}

IsAuthenticatedOrReadOnly(caller, method) ==
  method \in SAFE_METHODS \/ caller # Anonymous

\* api.permissions.IsOwnerOrReadOnly: a profile is updated by its owner only.
IsOwnerOrReadOnly(caller, method, owner) ==
  method \in SAFE_METHODS \/ owner = caller

\* ------------------------------------------------------------ follow graph
\* get_object_or_404(get_user_model(), username=username): the account with
\* that username, NoUser when there is none (404).
UserByUsername(username) ==
  IF username \in Users THEN username ELSE NoUser

FollowRow(follower, following) ==
  [follower |-> follower, following |-> following]

\* A Follow table without its unique constraint.
Follow_unique_together_missing(fl, row) == FALSE

\* Follow.Meta.unique_together: an INSERT of a (follower, following) pair the
\* table already holds is refused with IntegrityError.
Follow_unique_together(fl, row) == Count(fl, row) > 0

\* A handler without the self-follow check.
Follow_is_self_never(caller, user_to_follow) == FALSE

\* request.user == user_to_follow
Follow_is_self(caller, user_to_follow) == caller = user_to_follow

\* A lookup with follower and following exchanged.
Follow_get_reversed(fl, row) == Count(fl, FollowRow(row.following, row.follower)) > 0

\* The SELECT of get_or_create(follower=request.user, following=user_to_follow):
\* whether the table holds the row.
Follow_get(fl, row) == Count(fl, row) > 0

\* Follow.objects.filter(follower=request.user, following=user_to_unfollow).exists()
Follow_exists(fl, row) == Count(fl, row) > 0

Step(pc, table, status, error) ==
  [pc |-> pc, table |-> table, status |-> status, error |-> error]

\* A get_or_create that lets the IntegrityError of its INSERT escape.
Follow_get_or_create_IntegrityError_raised(fl, row) ==
  Step("done", fl, 500, "IntegrityError")

\* get_or_create, the INSERT having raised IntegrityError: the error is caught
\* and the row is looked up once more.
Follow_get_or_create_IntegrityError(fl, row) == Step("reget", fl, 0, "")

\* FollowView.post, one step per database query.  get_or_create is a SELECT
\* ("start"), then an INSERT ("create"), then, when the INSERT hit the unique
\* constraint, a second SELECT ("reget") whose miss re-raises IntegrityError.
FollowView_post(pc, caller, username, fl) ==
  LET user_to_follow == UserByUsername(username)
      row == FollowRow(caller, user_to_follow)
  IN  CASE pc = "start" ->
             IF user_to_follow = NoUser
               THEN Step("done", fl, 404, "Not found.")
             ELSE IF Follow_is_self(caller, user_to_follow)
               THEN Step("done", fl, 400, "You cannot follow yourself.")
             ELSE IF Follow_get(fl, row)
               THEN Step("done", fl, 400, "You are already following this user.")
             ELSE Step("create", fl, 0, "")
        [] pc = "create" ->
             IF Follow_unique_together(fl, row)
               THEN Follow_get_or_create_IntegrityError(fl, row)
               ELSE Step("done", Append(fl, row), 201, "")
        [] pc = "reget" ->
             IF Follow_get(fl, row)
               THEN Step("done", fl, 400, "You are already following this user.")
               ELSE Step("done", fl, 500, "IntegrityError")
        [] OTHER -> Step("done", fl, 500, "")

\* A DELETE that filters on the follower alone.
Follow_delete_by_follower(fl, row) == SelectSeq(fl, LAMBDA r : r.follower # row.follower)

\* follow.delete(): DELETE of every row the filter matches.
Follow_delete(fl, row) == SelectSeq(fl, LAMBDA r : r # row)

\* UnfollowView.post: follow.exists() ("start"), then follow.delete()
\* ("delete").
UnfollowView_post(pc, caller, username, fl) ==
  LET user_to_unfollow == UserByUsername(username)
      row == FollowRow(caller, user_to_unfollow)
  IN  CASE pc = "start" ->
             IF user_to_unfollow = NoUser
               THEN Step("done", fl, 404, "Not found.")
             ELSE IF Follow_exists(fl, row)
               THEN Step("delete", fl, 0, "")
             ELSE Step("done", fl, 400, "You are not following this user.")
        [] pc = "delete" -> Step("done", Follow_delete(fl, row), 204, "")
        [] OTHER -> Step("done", fl, 500, "")

\* A request served with no other request in between: the steps in a row.
RECURSIVE FollowView_post_run(_, _, _, _)
FollowView_post_run(pc, caller, username, fl) ==
  LET s == FollowView_post(pc, caller, username, fl)
  IN  IF s.pc = "done" THEN s ELSE FollowView_post_run(s.pc, caller, username, s.table)

RECURSIVE UnfollowView_post_run(_, _, _, _)
UnfollowView_post_run(pc, caller, username, fl) ==
  LET s == UnfollowView_post(pc, caller, username, fl)
  IN  IF s.pc = "done" THEN s ELSE UnfollowView_post_run(s.pc, caller, username, s.table)

\* permissions.AllowAny in place of IsAuthenticated.
FollowView_permission_classes_AllowAny(caller) == TRUE

FollowView_permission_classes(caller) == IsAuthenticated(caller)

UnfollowView_permission_classes(caller) == IsAuthenticated(caller)

FollowingListView_permission_classes(caller) == IsAuthenticated(caller)

FollowersListView_permission_classes(caller) == IsAuthenticated(caller)

\* A list that reads the other side of the edges.
FollowingListView_get_queryset_followers(user, fl) ==
  LET following == {r.follower : r \in {x \in Range(fl) : x.following = user}}
  IN  {u \in Users : u \in following}

\* FollowingListView.get_queryset: the accounts whose id is among the
\* `following` values of the caller's Follow rows.  The query on the account
\* table has no order_by and the model no Meta.ordering.
FollowingListView_get_queryset(user, fl) ==
  LET following == {r.following : r \in {x \in Range(fl) : x.follower = user}}
  IN  {u \in Users : u \in following}

\* FollowersListView.get_queryset
FollowersListView_get_queryset(user, fl) ==
  LET followers == {r.follower : r \in {x \in Range(fl) : x.following = user}}
  IN  {u \in Users : u \in followers}

\* POST /follow/{username}
Follow(caller, username) ==
  /\ IF ~FollowView_permission_classes(caller)
       THEN /\ resp' = Response("follow", "POST", caller, username, 0, "", 401, "", <<>>)
            /\ UNCHANGED follows
       ELSE LET r == FollowView_post_run("start", caller, username, follows)
            IN  /\ Len(r.table) <= MaxFollows
                /\ follows' = r.table
                /\ resp' = Response("follow", "POST", caller, username, 0, "",
                                    r.status, r.error, <<>>)
  /\ UNCHANGED <<bio, posts, creator, toggles, nextPostId, likes, nextLikeId, comments, nextCommentId, procs,
                 clock, queue>>

\* POST /unfollow/{username}
Unfollow(caller, username) ==
  /\ IF ~UnfollowView_permission_classes(caller)
       THEN /\ resp' = Response("unfollow", "POST", caller, username, 0, "", 401, "", <<>>)
            /\ UNCHANGED follows
       ELSE LET r == UnfollowView_post_run("start", caller, username, follows)
            IN  /\ follows' = r.table
                /\ resp' = Response("unfollow", "POST", caller, username, 0, "",
                                    r.status, r.error, <<>>)
  /\ UNCHANGED <<bio, posts, creator, toggles, nextPostId, likes, nextLikeId, comments, nextCommentId, procs,
                 clock, queue>>

\* GET /following
FollowingList(caller) ==
  /\ IF ~FollowingListView_permission_classes(caller)
       THEN resp' = Response("following", "GET", caller, NoParam, 0, "", 401, "", <<>>)
       ELSE \E data \in Orderings(FollowingListView_get_queryset(caller, follows)) :
              resp' = Response("following", "GET", caller, NoParam, 0, "", 200, "", data)
  /\ UNCHANGED <<dbvars, creator, toggles, procs,
                 clock, queue>>

\* GET /followers
FollowersList(caller) ==
  /\ IF ~FollowersListView_permission_classes(caller)
       THEN resp' = Response("followers", "GET", caller, NoParam, 0, "", 401, "", <<>>)
       ELSE \E data \in Orderings(FollowersListView_get_queryset(caller, follows)) :
              resp' = Response("followers", "GET", caller, NoParam, 0, "", 200, "", data)
  /\ UNCHANGED <<dbvars, creator, toggles, procs,
                 clock, queue>>

\* ------------------------------------------------------------------- posts
PostRow(id, user, content) == [id |-> id, user |-> user, content |-> content]

PostViewSet_permission_classes(caller, method) ==
  IsAuthenticatedOrReadOnly(caller, method)

QuerySet(status, error, rows) == [status |-> status, error |-> error, rows |-> rows]

\* PostViewSet.get_queryset.  With a username query parameter: the posts of
\* the account of that name, get() raising DoesNotExist (an unhandled fault,
\* 500) when there is none.  Without: the posts of request.user, for which an
\* AnonymousUser is no valid lookup value (TypeError, 500).
PostViewSet_get_queryset(caller, username, ps) ==
  IF username # NoParam
    THEN IF UserByUsername(username) = NoUser
           THEN QuerySet(500, "DoesNotExist", {})
           ELSE QuerySet(200, "", {p \in ps : p.user = UserByUsername(username)})
    ELSE IF caller = Anonymous
           THEN QuerySet(500, "TypeError", {})
           ELSE QuerySet(200, "", {p \in ps : p.user = caller})

\* GenericAPIView.get_object over get_queryset: the row with that primary key
\* among the queryset's rows (a set of at most one row).
PostViewSet_get_object(qs, id) == {p \in qs.rows : p.id = id}

\* PostSerializer validation: content is a required, non-blank TextField.
PostSerializer_is_valid(content) == content # ""

\* A create that lets the payload name the author.
PostViewSet_perform_create_from_payload(caller, payload_user) ==
  IF payload_user # NoParam THEN payload_user ELSE caller

\* PostViewSet.perform_create: serializer.save(user=self.request.user).  The
\* serializer's user field is read-only, so the payload's user is dropped.
PostViewSet_perform_create(caller, payload_user) == caller

\* on_delete=CASCADE of Like.post and Comment.post
Cascade(rows, post_id) == {r \in rows : r.post # post_id}

\* POST /posts
PostCreate(caller, content, payload_user) ==
  /\ IF ~PostViewSet_permission_classes(caller, "POST")
       THEN /\ resp' = Response("posts", "POST", caller, NoParam, 0, content, 401, "", <<>>)
            /\ UNCHANGED <<posts, creator, nextPostId>>
       ELSE IF ~PostSerializer_is_valid(content)
       THEN /\ resp' = Response("posts", "POST", caller, NoParam, 0, content, 400,
                                "This field may not be blank.", <<>>)
            /\ UNCHANGED <<posts, creator, nextPostId>>
       ELSE /\ nextPostId <= MaxPosts
            /\ posts' = posts \cup
                 {PostRow(nextPostId, PostViewSet_perform_create(caller, payload_user), content)}
            /\ creator' = [creator EXCEPT ![nextPostId] = caller]
            /\ nextPostId' = nextPostId + 1
            /\ resp' = Response("posts", "POST", caller, NoParam, nextPostId, content,
                                201, "", <<nextPostId>>)
  /\ UNCHANGED <<bio, follows, toggles, likes, nextLikeId, comments, nextCommentId, procs,
                 clock, queue>>

\* GET /posts[?username=]
PostList(caller, username) ==
  /\ LET qs == PostViewSet_get_queryset(caller, username, posts)
     IN  IF qs.status # 200
           THEN resp' = Response("posts", "GET", caller, username, 0, "", qs.status,
                                 qs.error, <<>>)
           ELSE \E data \in Orderings({p.id : p \in qs.rows}) :
                  resp' = Response("posts", "GET", caller, username, 0, "", 200, "", data)
  /\ UNCHANGED <<dbvars, creator, toggles, procs,
                 clock, queue>>

\* GET /posts/{id}[?username=]
PostRetrieve(caller, id, username) ==
  /\ LET qs == PostViewSet_get_queryset(caller, username, posts)
         obj == PostViewSet_get_object(qs, id)
     IN  IF qs.status # 200
           THEN resp' = Response("post", "GET", caller, username, id, "", qs.status,
                                 qs.error, <<>>)
         ELSE IF obj = {}
           THEN resp' = Response("post", "GET", caller, username, id, "", 404,
                                 "Not found.", <<>>)
         ELSE resp' = Response("post", "GET", caller, username, id, "", 200, "", <<id>>)
  /\ UNCHANGED <<dbvars, creator, toggles, procs,
                 clock, queue>>

\* PUT or PATCH /posts/{id}[?username=]
PostUpdate(caller, method, id, username, content) ==
  /\ LET qs == PostViewSet_get_queryset(caller, username, posts)
         obj == PostViewSet_get_object(qs, id)
     IN  IF ~PostViewSet_permission_classes(caller, method)
           THEN /\ resp' = Response("post", method, caller, username, id, content, 401,
                                    "", <<>>)
                /\ UNCHANGED posts
         ELSE IF qs.status # 200
           THEN /\ resp' = Response("post", method, caller, username, id, content,
                                    qs.status, qs.error, <<>>)
                /\ UNCHANGED posts
         ELSE IF obj = {}
           THEN /\ resp' = Response("post", method, caller, username, id, content, 404,
                                    "Not found.", <<>>)
                /\ UNCHANGED posts
         ELSE IF ~PostSerializer_is_valid(content)
           THEN /\ resp' = Response("post", method, caller, username, id, content, 400,
                                    "This field may not be blank.", <<>>)
                /\ UNCHANGED posts
         ELSE /\ posts' = (posts \ obj) \cup {[p EXCEPT !.content = content] : p \in obj}
              /\ resp' = Response("post", method, caller, username, id, content, 200,
                                  "", <<id>>)
  /\ UNCHANGED <<bio, follows, creator, toggles, nextPostId, likes, nextLikeId, comments,
                 nextCommentId, procs,
                 clock, queue>>

\* DELETE /posts/{id}[?username=]
PostDestroy(caller, id, username) ==
  /\ LET qs == PostViewSet_get_queryset(caller, username, posts)
         obj == PostViewSet_get_object(qs, id)
     IN  IF ~PostViewSet_permission_classes(caller, "DELETE")
           THEN /\ resp' = Response("post", "DELETE", caller, username, id, "", 401,
                                    "", <<>>)
                /\ UNCHANGED <<posts, likes, comments>>
         ELSE IF qs.status # 200
           THEN /\ resp' = Response("post", "DELETE", caller, username, id, "",
                                    qs.status, qs.error, <<>>)
                /\ UNCHANGED <<posts, likes, comments>>
         ELSE IF obj = {}
           THEN /\ resp' = Response("post", "DELETE", caller, username, id, "", 404,
                                    "Not found.", <<>>)
                /\ UNCHANGED <<posts, likes, comments>>
         ELSE /\ posts' = posts \ obj
              /\ likes' = Cascade(likes, id)
              /\ comments' = Cascade(comments, id)
              /\ resp' = Response("post", "DELETE", caller, username, id, "", 204,
                                  "", <<>>)
  /\ UNCHANGED <<bio, follows, creator, toggles, nextPostId, nextLikeId, nextCommentId, procs,
                 clock, queue>>

OwnPostsListView_permission_classes(caller) == IsAuthenticated(caller)

FollowingPostsListView_permission_classes(caller) == IsAuthenticated(caller)

SearchPostsView_permission_classes(caller) == IsAuthenticated(caller)

\* OwnPostsListView.get_queryset
OwnPostsListView_get_queryset(user, ps) == {p \in ps : p.user = user}

\* A feed that reads the other side of the edges.
FollowingPostsListView_get_queryset_followers(user, fl, ps) ==
  LET following_users == {r.follower : r \in {x \in Range(fl) : x.following = user}}
  IN  {p \in ps : p.user \in following_users}

\* FollowingPostsListView.get_queryset: the posts whose author is among the
\* `following` values of the caller's Follow rows.
FollowingPostsListView_get_queryset(user, fl, ps) ==
  LET following_users == {r.following : r \in {x \in Range(fl) : x.follower = user}}
  IN  {p \in ps : p.user \in following_users}

\* Case folding of the one-letter texts of the model.
Lower(c) ==
  CASE c = "A" -> "a"
    [] c = "B" -> "b"
    [] OTHER -> c

SearchCriteria == {"", "A", "b"}

\* SearchPostsView.get_queryset: content__icontains when a criteria is given.
SearchPostsView_get_queryset(search_criteria, ps) ==
  IF search_criteria # ""
    THEN {p \in ps : Lower(p.content) = Lower(search_criteria)}
    ELSE ps

\* GET /own-posts
OwnPostsList(caller) ==
  /\ IF ~OwnPostsListView_permission_classes(caller)
       THEN resp' = Response("own-posts", "GET", caller, NoParam, 0, "", 401, "", <<>>)
       ELSE \E data \in Orderings({p.id : p \in OwnPostsListView_get_queryset(caller, posts)}) :
              resp' = Response("own-posts", "GET", caller, NoParam, 0, "", 200, "", data)
  /\ UNCHANGED <<dbvars, creator, toggles, procs,
                 clock, queue>>

\* GET /following-posts
FollowingPostsList(caller) ==
  /\ IF ~FollowingPostsListView_permission_classes(caller)
       THEN resp' = Response("following-posts", "GET", caller, NoParam, 0, "", 401, "", <<>>)
       ELSE \E data \in Orderings({p.id :
                          p \in FollowingPostsListView_get_queryset(caller, follows, posts)}) :
              resp' = Response("following-posts", "GET", caller, NoParam, 0, "", 200, "",
                               data)
  /\ UNCHANGED <<dbvars, creator, toggles, procs,
                 clock, queue>>

\* GET /search-posts[?search_criteria=]
SearchPosts(caller, search_criteria) ==
  /\ IF ~SearchPostsView_permission_classes(caller)
       THEN resp' = Response("search-posts", "GET", caller, NoParam, 0, search_criteria,
                             401, "", <<>>)
       ELSE \E data \in Orderings({p.id :
                          p \in SearchPostsView_get_queryset(search_criteria, posts)}) :
              resp' = Response("search-posts", "GET", caller, NoParam, 0, search_criteria,
                               200, "", data)
  /\ UNCHANGED <<dbvars, creator, toggles, procs,
                 clock, queue>>

\* ------------------------------------------------------------------- likes
LikeRow(id, user, post) == [id |-> id, user |-> user, post |-> post]

LikeStep(pc, table, next_id, like_id, status, error) ==
  [pc |-> pc, table |-> table, next_id |-> next_id, like_id |-> like_id,
   status |-> status, error |-> error]

\* Like.Meta.unique_together and the foreign key to Post: an INSERT of a
\* (user, post) pair the table already holds, or for a post that is gone, is
\* refused with IntegrityError.
Like_unique_together(lk, user, post) ==
  \E r \in lk : r.user = user /\ r.post = post

Like_post_exists(ps, post_id) == \E p \in ps : p.id = post_id

\* A lookup that filters on the post alone.
Like_get_any_user(lk, user, post) == {r \in lk : r.post = post}

\* The rows get() matches.
Like_get(lk, user, post) == {r \in lk : r.user = user /\ r.post = post}

\* A DELETE of every like of the post.
Like_delete_by_post(lk, like_id) ==
  {r \in lk : \A d \in lk : d.id = like_id => r.post # d.post}

\* like.delete(): DELETE of the row with the instance's primary key.
Like_delete(lk, like_id) == {r \in lk : r.id # like_id}

\* LikeView.post, one step per database query: Post.objects.get and the
\* SELECT of get_or_create ("start"), its INSERT ("create"), its second
\* SELECT after an IntegrityError ("reget"), and like.delete(), a DELETE by
\* primary key, when the row was not created ("delete").
LikeView_post(pc, caller, post_id, lk, ps, next_id, like_id) ==
  LET found == Like_get(lk, caller, post_id)
  IN  CASE pc = "start" ->
             IF ~Like_post_exists(ps, post_id)
               THEN LikeStep("done", lk, next_id, 0, 500, "DoesNotExist")
             ELSE IF Cardinality(found) > 1
               THEN LikeStep("done", lk, next_id, 0, 500, "MultipleObjectsReturned")
             ELSE IF found # {}
               THEN LikeStep("delete", lk, next_id, (CHOOSE r \in found : TRUE).id, 0, "")
             ELSE LikeStep("create", lk, next_id, 0, 0, "")
        [] pc = "create" ->
             IF Like_unique_together(lk, caller, post_id) \/ ~Like_post_exists(ps, post_id)
               THEN LikeStep("reget", lk, next_id, 0, 0, "")
               ELSE LikeStep("done", lk \cup {LikeRow(next_id, caller, post_id)},
                             next_id + 1, next_id, 201, "Post liked.")
        [] pc = "reget" ->
             IF Cardinality(found) = 1
               THEN LikeStep("delete", lk, next_id, (CHOOSE r \in found : TRUE).id, 0, "")
               ELSE LikeStep("done", lk, next_id, 0, 500, "IntegrityError")
        [] pc = "delete" ->
             LikeStep("done", Like_delete(lk, like_id), next_id, like_id, 204,
                      "Post unliked.")
        [] OTHER -> LikeStep("done", lk, next_id, 0, 500, "")

RECURSIVE LikeView_post_run(_, _, _, _, _, _, _)
LikeView_post_run(pc, caller, post_id, lk, ps, next_id, like_id) ==
  LET s == LikeView_post(pc, caller, post_id, lk, ps, next_id, like_id)
  IN  IF s.pc = "done" THEN s
      ELSE LikeView_post_run(s.pc, caller, post_id, s.table, ps, s.next_id, s.like_id)

LikeView_permission_classes(caller) == IsAuthenticated(caller)

\* POST /posts/{post_id}/like
Like(caller, post_id) ==
  /\ IF ~LikeView_permission_classes(caller)
       THEN /\ resp' = Response("like", "POST", caller, NoParam, post_id, "", 401, "", <<>>)
            /\ UNCHANGED <<likes, nextLikeId, toggles>>
       ELSE LET r == LikeView_post_run("start", caller, post_id, likes, posts, nextLikeId, 0)
            IN  /\ r.next_id <= MaxLikes + 1
                /\ likes' = r.table
                /\ nextLikeId' = r.next_id
                /\ toggles' = IF r.status \in {201, 204}
                                THEN [toggles EXCEPT ![<<caller, post_id>>] = @ + 1]
                                ELSE toggles
                /\ resp' = Response("like", "POST", caller, NoParam, post_id, "",
                                    r.status, r.error, <<>>)
  /\ UNCHANGED <<bio, follows, posts, creator, nextPostId, comments, nextCommentId, procs,
                 clock, queue>>

\* ---------------------------------------------------------------- comments
CommentRow(id, user, post, content) ==
  [id |-> id, user |-> user, post |-> post, content |-> content]

CommentViewSet_permission_classes(caller) == IsAuthenticated(caller)

\* CommentViewSet.queryset = Comment.objects.all(): no filter on any request
\* parameter.
CommentViewSet_queryset(cs) == cs

\* CommentSerializer validation: post is a primary key of an existing Post,
\* content a non-blank text.
CommentSerializer_is_valid(ps, post, content) ==
  Like_post_exists(ps, post) /\ content # ""

\* The URL keyword arguments of the routes of router.register("comments", ...):
\* the list route has none, so self.kwargs['post_id'] raises KeyError.
NoKwarg == 0
CommentViewSet_kwargs_post_id == NoKwarg

\* Comment.objects.create(user=, post=, content=): a Comment row stored through
\* the ORM, the one way a row enters the table besides POST /comments.  The
\* foreign keys name an existing account and an existing post.
Comment_objects_create(user, post, content) ==
  /\ nextCommentId <= MaxComments
  /\ user \in Users
  /\ Like_post_exists(posts, post)
  /\ comments' = comments \cup {CommentRow(nextCommentId, user, post, content)}
  /\ nextCommentId' = nextCommentId + 1
  /\ UNCHANGED <<bio, follows, posts, creator, toggles, nextPostId, likes, nextLikeId,
                 resp, procs,
                 clock, queue>>

\* GET /comments[?post_id=]
CommentList(caller, post_id) ==
  /\ IF ~CommentViewSet_permission_classes(caller)
       THEN resp' = Response("comments", "GET", caller, NoParam, post_id, "", 401, "", <<>>)
       ELSE \E data \in Orderings({c.id : c \in CommentViewSet_queryset(comments)}) :
              resp' = Response("comments", "GET", caller, NoParam, post_id, "", 200, "",
                               data)
  /\ UNCHANGED <<dbvars, creator, toggles, procs,
                 clock, queue>>

\* POST /comments: CommentViewSet.perform_create after validation
CommentCreate(caller, post, content) ==
  /\ IF ~CommentViewSet_permission_classes(caller)
       THEN /\ resp' = Response("comments", "POST", caller, NoParam, post, content, 401,
                                "", <<>>)
            /\ UNCHANGED <<comments, nextCommentId>>
       ELSE IF ~CommentSerializer_is_valid(posts, post, content)
       THEN /\ resp' = Response("comments", "POST", caller, NoParam, post, content, 400,
                                "Invalid data.", <<>>)
            /\ UNCHANGED <<comments, nextCommentId>>
       ELSE IF CommentViewSet_kwargs_post_id = NoKwarg
       THEN /\ resp' = Response("comments", "POST", caller, NoParam, post, content, 500,
                                "KeyError", <<>>)
            /\ UNCHANGED <<comments, nextCommentId>>
       ELSE IF ~Like_post_exists(posts, CommentViewSet_kwargs_post_id)
       THEN /\ resp' = Response("comments", "POST", caller, NoParam, post, content, 500,
                                "DoesNotExist", <<>>)
            /\ UNCHANGED <<comments, nextCommentId>>
       ELSE /\ comments' = comments \cup
                 {CommentRow(nextCommentId, caller, CommentViewSet_kwargs_post_id, content)}
            /\ nextCommentId' = nextCommentId + 1
            /\ resp' = Response("comments", "POST", caller, NoParam, post, content, 201,
                                "", <<nextCommentId>>)
  /\ UNCHANGED <<bio, follows, posts, creator, toggles, nextPostId, likes, nextLikeId, procs,
                 clock, queue>>

\* PUT or PATCH /comments/{id}
CommentUpdate(caller, id, post, content) ==
  /\ LET obj == {c \in CommentViewSet_queryset(comments) : c.id = id}
     IN  IF ~CommentViewSet_permission_classes(caller)
           THEN /\ resp' = Response("comment", "PUT", caller, NoParam, id, content, 401,
                                    "", <<>>)
                /\ UNCHANGED comments
         ELSE IF obj = {}
           THEN /\ resp' = Response("comment", "PUT", caller, NoParam, id, content, 404,
                                    "Not found.", <<>>)
                /\ UNCHANGED comments
         ELSE IF ~CommentSerializer_is_valid(posts, post, content)
           THEN /\ resp' = Response("comment", "PUT", caller, NoParam, id, content, 400,
                                    "Invalid data.", <<>>)
                /\ UNCHANGED comments
         ELSE /\ comments' = (comments \ obj) \cup
                   {[c EXCEPT !.post = post, !.content = content] : c \in obj}
              /\ resp' = Response("comment", "PUT", caller, NoParam, id, content, 200,
                                  "", <<id>>)
  /\ UNCHANGED <<bio, follows, posts, creator, toggles, nextPostId, likes, nextLikeId,
                 nextCommentId, procs,
                 clock, queue>>

\* DELETE /comments/{id}
CommentDestroy(caller, id) ==
  /\ LET obj == {c \in CommentViewSet_queryset(comments) : c.id = id}
     IN  IF ~CommentViewSet_permission_classes(caller)
           THEN /\ resp' = Response("comment", "DELETE", caller, NoParam, id, "", 401,
                                    "", <<>>)
                /\ UNCHANGED comments
         ELSE IF obj = {}
           THEN /\ resp' = Response("comment", "DELETE", caller, NoParam, id, "", 404,
                                    "Not found.", <<>>)
                /\ UNCHANGED comments
         ELSE /\ comments' = comments \ obj
              /\ resp' = Response("comment", "DELETE", caller, NoParam, id, "", 204,
                                  "", <<>>)
  /\ UNCHANGED <<bio, follows, posts, creator, toggles, nextPostId, likes, nextLikeId,
                 nextCommentId, procs,
                 clock, queue>>

\* ---------------------------------------------------------------- accounts
\* UserProfileView.get_object is request.user: the object is the caller's own
\* account.
UserProfileView_permission_classes(caller, method) ==
  IsAuthenticated(caller) /\ IsOwnerOrReadOnly(caller, method, caller)

UserSearchView_permission_classes(caller) == IsAuthenticated(caller)

\* UserSearchView.get_queryset: username__icontains when a username is given.
\* Account names are numbered, and a search term is one of them.
UserSearchView_get_queryset(username) ==
  IF username # NoParam THEN {u \in Users : u = username} ELSE Users

\* GET /profile: UserProfileView.get_object is request.user
ProfileGet(caller) ==
  /\ IF ~UserProfileView_permission_classes(caller, "GET")
       THEN resp' = Response("profile", "GET", caller, NoParam, 0, "", 401, "", <<>>)
       ELSE resp' = Response("profile", "GET", caller, NoParam, 0, bio[caller], 200, "",
                             <<caller>>)
  /\ UNCHANGED <<dbvars, creator, toggles, procs,
                 clock, queue>>

\* PUT /profile
ProfilePut(caller, new_bio) ==
  /\ IF ~UserProfileView_permission_classes(caller, "PUT")
       THEN /\ resp' = Response("profile", "PUT", caller, NoParam, 0, new_bio, 401, "", <<>>)
            /\ UNCHANGED bio
       ELSE /\ bio' = [bio EXCEPT ![caller] = new_bio]
            /\ resp' = Response("profile", "PUT", caller, NoParam, 0, new_bio, 200, "",
                                <<caller>>)
  /\ UNCHANGED <<follows, posts, creator, toggles, nextPostId, likes, nextLikeId, comments,
                 nextCommentId, procs,
                 clock, queue>>

\* GET /search[?username=]
UserSearch(caller, username) ==
  /\ IF ~UserSearchView_permission_classes(caller)
       THEN resp' = Response("search", "GET", caller, username, 0, "", 401, "", <<>>)
       ELSE \E data \in Orderings(UserSearchView_get_queryset(username)) :
              resp' = Response("search", "GET", caller, username, 0, "", 200, "", data)
  /\ UNCHANGED <<dbvars, creator, toggles, procs,
                 clock, queue>>

\* -------------------------------------------------------------- scheduling
\* schedule_time values of a request body, in seconds of the server clock.
Times == 0..(MaxClock + 1)

\* The message of a deferred create_scheduled_post call on the task queue:
\* its arguments, the time before which the queue does not deliver it, and,
\* as history, the clock at acceptance, the deliveries so far and the posts
\* they created.
Task(user_id, content, eta, accepted_at) ==
  [user_id |-> user_id, content |-> content, eta |-> eta, accepted_at |-> accepted_at,
   runs |-> 0, posts |-> {}]

SchedulePostView_permission_classes(caller) == IsAuthenticated(caller)

\* A view that accepts any schedule_time.
SchedulePostView_in_the_past_never(schedule_time, now) == FALSE

\* schedule_time is in the past relative to the server clock at submission.
SchedulePostView_in_the_past(schedule_time, now) == schedule_time < now

\* POST /schedule-post: 400 when schedule_time is in the past, else the
\* deferred task is enqueued and the answer is 201.
SchedulePost(caller, content, schedule_time) ==
  /\ IF ~SchedulePostView_permission_classes(caller)
       THEN /\ resp' = Response("schedule-post", "POST", caller, NoParam, 0, content, 401,
                                "", <<schedule_time>>)
            /\ UNCHANGED queue
       ELSE IF SchedulePostView_in_the_past(schedule_time, clock)
       THEN /\ resp' = Response("schedule-post", "POST", caller, NoParam, 0, content, 400,
                                "ValidationError", <<schedule_time>>)
            /\ UNCHANGED queue
       ELSE /\ Len(queue) < MaxScheduled
            /\ queue' = Append(queue, Task(caller, content, schedule_time, clock))
            /\ resp' = Response("schedule-post", "POST", caller, NoParam, 0, content, 201,
                                "", <<schedule_time>>)
  /\ UNCHANGED <<dbvars, creator, toggles, procs, clock>>

\* The server clock advances by a second.
Tick ==
  /\ clock < MaxClock
  /\ clock' = clock + 1
  /\ UNCHANGED <<dbvars, creator, toggles, resp, procs, queue>>

\* A queue that delivers a task without regard to its execution time.
Queue_due_at_once(task, now) == TRUE

\* The queue delivers a task at or after its execution time.
Queue_due(task, now) == now >= task.eta

\* tasks.create_scheduled_post(user_id, content): the Post table after the
\* call.  CustomUser.objects.get raises DoesNotExist for a missing account,
\* and the task ends without a post.
create_scheduled_post(user_id, content, ps, id) ==
  IF user_id \in Users THEN ps \cup {PostRow(id, user_id, content)} ELSE ps

\* A worker runs the i-th task of the queue.  Delivery is at least once: a
\* task that has run may be delivered again.
TaskRun(i) ==
  /\ i \in 1..Len(queue)
  /\ Queue_due(queue[i], clock)
  /\ queue[i].runs < MaxDeliveries
  /\ posts' = create_scheduled_post(queue[i].user_id, queue[i].content, posts, nextPostId)
  /\ nextPostId' = IF posts' = posts THEN nextPostId ELSE nextPostId + 1
  /\ queue' = [queue EXCEPT ![i].runs = @ + 1,
                            ![i].posts = @ \cup {p.id : p \in posts' \ posts}]
  /\ UNCHANGED <<bio, follows, creator, toggles, likes, nextLikeId, comments, nextCommentId,
                 resp, procs, clock>>

\* ------------------------------------------------------- concurrent workers
\* A worker that serves no request takes one and runs its first query.
Free(w) == procs[w].pc \in {"idle", "done"}

FollowBegin(w, caller, username) ==
  /\ Free(w)
  /\ IF ~FollowView_permission_classes(caller)
       THEN /\ procs' = [procs EXCEPT ![w] =
                           Proc("follow", "done", caller, username, 0, 0, 401, "")]
            /\ UNCHANGED follows
       ELSE LET s == FollowView_post("start", caller, username, follows)
            IN  /\ follows' = s.table
                /\ procs' = [procs EXCEPT ![w] =
                               Proc("follow", s.pc, caller, username, 0, 0, s.status, s.error)]
  /\ UNCHANGED <<bio, posts, creator, toggles, nextPostId, likes, nextLikeId, comments,
                 nextCommentId, resp, writes,
                 clock, queue>>

FollowStep(w) ==
  /\ procs[w].view = "follow"
  /\ ~Free(w)
  /\ LET s == FollowView_post(procs[w].pc, procs[w].caller, procs[w].username, follows)
     IN  /\ Len(s.table) <= MaxFollows
         /\ follows' = s.table
         /\ procs' = [procs EXCEPT ![w].pc = s.pc, ![w].status = s.status,
                                   ![w].error = s.error]
  /\ UNCHANGED <<bio, posts, creator, toggles, nextPostId, likes, nextLikeId, comments,
                 nextCommentId, resp, writes,
                 clock, queue>>

UnfollowBegin(w, caller, username) ==
  /\ Free(w)
  /\ IF ~UnfollowView_permission_classes(caller)
       THEN /\ procs' = [procs EXCEPT ![w] =
                           Proc("unfollow", "done", caller, username, 0, 0, 401, "")]
            /\ UNCHANGED follows
       ELSE LET s == UnfollowView_post("start", caller, username, follows)
            IN  /\ follows' = s.table
                /\ procs' = [procs EXCEPT ![w] =
                               Proc("unfollow", s.pc, caller, username, 0, 0, s.status,
                                    s.error)]
  /\ UNCHANGED <<bio, posts, creator, toggles, nextPostId, likes, nextLikeId, comments,
                 nextCommentId, resp, writes,
                 clock, queue>>

UnfollowStep(w) ==
  /\ procs[w].view = "unfollow"
  /\ ~Free(w)
  /\ LET s == UnfollowView_post(procs[w].pc, procs[w].caller, procs[w].username, follows)
     IN  /\ follows' = s.table
         /\ procs' = [procs EXCEPT ![w].pc = s.pc, ![w].status = s.status,
                                   ![w].error = s.error]
  /\ UNCHANGED <<bio, posts, creator, toggles, nextPostId, likes, nextLikeId, comments,
                 nextCommentId, resp, writes,
                 clock, queue>>

\* A worker takes a like request and runs its first queries.
LikeBegin(w, caller, post_id) ==
  /\ Free(w)
  /\ IF ~LikeView_permission_classes(caller)
       THEN /\ procs' = [procs EXCEPT ![w] =
                           Proc("like", "done", caller, NoParam, post_id, 0, 401, "")]
            /\ UNCHANGED <<likes, nextLikeId>>
       ELSE LET s == LikeView_post("start", caller, post_id, likes, posts, nextLikeId, 0)
            IN  /\ likes' = s.table
                /\ nextLikeId' = s.next_id
                /\ procs' = [procs EXCEPT ![w] =
                               Proc("like", s.pc, caller, NoParam, post_id, s.like_id,
                                    s.status, s.error)]
  /\ UNCHANGED <<bio, follows, posts, creator, toggles, nextPostId, comments,
                 nextCommentId, resp, writes,
                 clock, queue>>

\* The worker runs the next query of its like request.
LikeContinue(w) ==
  /\ procs[w].view = "like"
  /\ ~Free(w)
  /\ LET s == LikeView_post(procs[w].pc, procs[w].caller, procs[w].post_id, likes, posts,
                            nextLikeId, procs[w].like_id)
     IN  /\ likes' = s.table
         /\ nextLikeId' = s.next_id
         /\ procs' = [procs EXCEPT ![w].pc = s.pc, ![w].like_id = s.like_id,
                                   ![w].status = s.status, ![w].error = s.error]
  /\ UNCHANGED <<bio, follows, posts, creator, toggles, nextPostId, comments,
                 nextCommentId, resp, writes,
                 clock, queue>>

\* ------------------------------------------------------------------- specs
Init ==
  /\ bio = [u \in Users |-> ""]
  /\ follows = <<>>
  /\ posts = {}
  /\ creator = [i \in PostIds |-> Anonymous]
  /\ toggles = [k \in Users \X PostIds |-> 0]
  /\ nextPostId = 1
  /\ likes = {}
  /\ nextLikeId = 1
  /\ comments = {}
  /\ nextCommentId = 1
  /\ resp = NoResp
  /\ procs = [w \in Workers |-> IdleProc]
  /\ writes = 0
  /\ clock = 0
  /\ queue = <<>>

\* The server takes the next request once the last response is delivered.
Ready == resp = NoResp

\* The response of the last request is delivered to its client.
Reply ==
  /\ resp # NoResp
  /\ resp' = NoResp
  /\ UNCHANGED <<dbvars, creator, toggles, procs, writes,
                 clock, queue>>

PayloadContents == Contents \cup {""}
Methods == {"PUT", "PATCH"}

FollowRequest ==
  /\ Ready
  /\ \E caller \in Callers, username \in Usernames : Follow(caller, username)
UnfollowRequest ==
  /\ Ready
  /\ \E caller \in Callers, username \in Usernames : Unfollow(caller, username)
FollowingListRequest ==
  /\ Ready
  /\ \E caller \in Callers : FollowingList(caller)
FollowersListRequest ==
  /\ Ready
  /\ \E caller \in Callers : FollowersList(caller)
PostCreateRequest ==
  /\ Ready
  /\ \E caller \in Callers, content \in PayloadContents, payload_user \in Callers :
       PostCreate(caller, content, payload_user)
PostListRequest ==
  /\ Ready
  /\ \E caller \in Callers, username \in Usernames \cup {NoParam} : PostList(caller, username)
PostRetrieveRequest ==
  /\ Ready
  /\ \E caller \in Callers, id \in PostIds, username \in Usernames \cup {NoParam} :
       PostRetrieve(caller, id, username)
PostUpdateRequest ==
  /\ Ready
  /\ \E caller \in Callers, method \in Methods, id \in PostIds,
       username \in Usernames \cup {NoParam}, content \in PayloadContents :
       PostUpdate(caller, method, id, username, content)
PostDestroyRequest ==
  /\ Ready
  /\ \E caller \in Callers, id \in PostIds, username \in Usernames \cup {NoParam} :
       PostDestroy(caller, id, username)
OwnPostsListRequest ==
  /\ Ready
  /\ \E caller \in Callers : OwnPostsList(caller)
FollowingPostsListRequest ==
  /\ Ready
  /\ \E caller \in Callers : FollowingPostsList(caller)
SearchPostsRequest ==
  /\ Ready
  /\ \E caller \in Callers, search_criteria \in SearchCriteria :
       SearchPosts(caller, search_criteria)
LikeRequest ==
  /\ Ready
  /\ \E caller \in Callers, post_id \in PostIds : Like(caller, post_id)
CommentListRequest ==
  /\ Ready
  /\ \E caller \in Callers, post_id \in PostIds \cup {MaxPosts + 1} :
       CommentList(caller, post_id)
CommentCreateRequest ==
  /\ Ready
  /\ \E caller \in Callers, post \in PostIds, content \in PayloadContents :
       CommentCreate(caller, post, content)
CommentUpdateRequest ==
  /\ Ready
  /\ \E caller \in Callers, id \in 1..nextCommentId, post \in PostIds,
       content \in PayloadContents :
       CommentUpdate(caller, id, post, content)
CommentDestroyRequest ==
  /\ Ready
  /\ \E caller \in Callers, id \in 1..nextCommentId : CommentDestroy(caller, id)
ProfileGetRequest ==
  /\ Ready
  /\ \E caller \in Callers : ProfileGet(caller)
ProfilePutRequest ==
  /\ Ready
  /\ \E caller \in Callers, new_bio \in Bios : ProfilePut(caller, new_bio)
UserSearchRequest ==
  /\ Ready
  /\ \E caller \in Callers, username \in Usernames \cup {NoParam} : UserSearch(caller, username)

\* A behaviour of the whole API holds at most MaxWrites requests that change
\* the store.
Budget ==
  /\ writes' = IF dbvars' = dbvars THEN writes ELSE writes + 1
  /\ writes' <= MaxWrites

\* Every endpoint, each request served without overlap.
Next ==
  \/ FollowRequest /\ Budget
  \/ UnfollowRequest /\ Budget
  \/ FollowingListRequest /\ Budget
  \/ FollowersListRequest /\ Budget
  \/ PostCreateRequest /\ Budget
  \/ PostListRequest /\ Budget
  \/ PostRetrieveRequest /\ Budget
  \/ PostUpdateRequest /\ Budget
  \/ PostDestroyRequest /\ Budget
  \/ OwnPostsListRequest /\ Budget
  \/ FollowingPostsListRequest /\ Budget
  \/ SearchPostsRequest /\ Budget
  \/ LikeRequest /\ Budget
  \/ CommentListRequest /\ Budget
  \/ CommentCreateRequest /\ Budget
  \/ CommentUpdateRequest /\ Budget
  \/ CommentDestroyRequest /\ Budget
  \/ ProfileGetRequest /\ Budget
  \/ ProfilePutRequest /\ Budget
  \/ UserSearchRequest /\ Budget
  \/ Reply

Spec == Init /\ [][Next]_vars

\* The follow graph's endpoints.
NextFollow ==
  \/ FollowRequest /\ UNCHANGED writes
  \/ UnfollowRequest /\ UNCHANGED writes
  \/ FollowingListRequest /\ UNCHANGED writes
  \/ FollowersListRequest /\ UNCHANGED writes
  \/ Reply

SpecFollow == Init /\ [][NextFollow]_vars

\* The endpoints of posts.
NextPosts ==
  \/ PostCreateRequest /\ UNCHANGED writes
  \/ PostListRequest /\ UNCHANGED writes
  \/ PostRetrieveRequest /\ UNCHANGED writes
  \/ PostUpdateRequest /\ UNCHANGED writes
  \/ PostDestroyRequest /\ UNCHANGED writes
  \/ Reply

SpecPosts == Init /\ [][NextPosts]_vars

\* Requests that publish a post and that take one's own post down.
PublishRequest ==
  /\ Ready
  /\ \E caller \in Callers : PostCreate(caller, "a", NoParam)
TakeDownRequest ==
  /\ Ready
  /\ \E caller \in Callers, id \in PostIds : PostDestroy(caller, id, NoParam)

\* Comments stored through the ORM while no request is being served.
CommentSeed ==
  /\ Ready
  /\ \E user \in Users, post \in PostIds : Comment_objects_create(user, post, "a")

\* The endpoints of comments, on posts that come and go.
NextComments ==
  \/ PublishRequest /\ UNCHANGED writes
  \/ TakeDownRequest /\ UNCHANGED writes
  \/ CommentSeed /\ UNCHANGED writes
  \/ CommentListRequest /\ UNCHANGED writes
  \/ CommentCreateRequest /\ UNCHANGED writes
  \/ CommentUpdateRequest /\ UNCHANGED writes
  \/ CommentDestroyRequest /\ UNCHANGED writes
  \/ Reply

SpecComments == Init /\ [][NextComments]_vars

\* Scheduled posts: the endpoint, the clock and the workers of the task queue.
ScheduleRequest ==
  /\ Ready
  /\ \E caller \in Callers, schedule_time \in Times : SchedulePost(caller, "a", schedule_time)

NextSchedule ==
  \/ ScheduleRequest /\ UNCHANGED writes
  \/ Tick /\ UNCHANGED writes
  \/ \E i \in 1..MaxScheduled : TaskRun(i) /\ UNCHANGED writes
  \/ Reply

SpecSchedule == Init /\ [][NextSchedule]_vars

\* Likes, on posts that come and go.
NextLikes ==
  \/ PublishRequest /\ UNCHANGED writes
  \/ TakeDownRequest /\ UNCHANGED writes
  \/ LikeRequest /\ UNCHANGED writes
  \/ Reply

SpecLikes == Init /\ [][NextLikes]_vars

\* The following feed: the follow graph together with posts.
NextFeed ==
  \/ FollowRequest /\ UNCHANGED writes
  \/ UnfollowRequest /\ UNCHANGED writes
  \/ PublishRequest /\ UNCHANGED writes
  \/ TakeDownRequest /\ UNCHANGED writes
  \/ FollowingPostsListRequest /\ UNCHANGED writes
  \/ Reply

SpecFeed == Init /\ [][NextFeed]_vars

\* Follow and unfollow requests served by concurrent workers, their database
\* queries interleaved.
ConcCallers == {Anonymous, 1, 2}
ConcUsernames == {1, 2}

NextConc ==
  \/ \E w \in Workers, caller \in ConcCallers, username \in ConcUsernames :
       FollowBegin(w, caller, username)
  \/ \E w \in Workers : FollowStep(w)
  \/ \E w \in Workers, caller \in ConcCallers, username \in ConcUsernames :
       UnfollowBegin(w, caller, username)
  \/ \E w \in Workers : UnfollowStep(w)

SpecConc == Init /\ [][NextConc]_vars

\* Follow requests alone, one per worker, started on an empty Follow table:
\* the requests that race to create an edge that does not exist yet.
NextRaceFollow ==
  \/ \E w \in Workers, caller \in Callers, username \in Usernames :
       procs[w].pc = "idle" /\ FollowBegin(w, caller, username)
  \/ \E w \in Workers : FollowStep(w)

SpecRaceFollow == Init /\ [][NextRaceFollow]_vars

\* Toggles that race: requests served one after the other build a follow
\* graph, a post and likes while no worker has started; then each worker
\* serves one unfollow or one like request, their queries interleaved.
NoneStarted == \A w \in Workers : procs[w].pc = "idle"
RaceCallers == {1, 2}

NextRaceToggle ==
  \/ /\ NoneStarted /\ Ready
     /\ \E caller \in RaceCallers, username \in ConcUsernames : Follow(caller, username)
     /\ UNCHANGED writes
  \/ /\ NoneStarted /\ Ready
     /\ \E caller \in RaceCallers : PostCreate(caller, "a", NoParam)
     /\ UNCHANGED writes
  \/ /\ NoneStarted /\ Ready
     /\ \E caller \in RaceCallers, post_id \in PostIds : Like(caller, post_id)
     /\ UNCHANGED writes
  \/ NoneStarted /\ Reply
  \/ \E w \in Workers, caller \in RaceCallers, username \in ConcUsernames :
       Ready /\ procs[w].pc = "idle" /\ UnfollowBegin(w, caller, username)
  \/ \E w \in Workers : UnfollowStep(w)
  \/ \E w \in Workers, caller \in RaceCallers, post_id \in PostIds :
       Ready /\ procs[w].pc = "idle" /\ LikeBegin(w, caller, post_id)
  \/ \E w \in Workers : LikeContinue(w)

SpecRaceToggle == Init /\ [][NextRaceToggle]_vars

\* The edges of the graph: follows and likes, beside posts and comments.
NextEdges ==
  \/ /\ Ready
     /\ \E caller \in RaceCallers, username \in ConcUsernames : Follow(caller, username)
     /\ UNCHANGED writes
  \/ /\ Ready
     /\ \E caller \in RaceCallers, username \in ConcUsernames : Unfollow(caller, username)
     /\ UNCHANGED writes
  \/ /\ Ready
     /\ \E caller \in RaceCallers : PostCreate(caller, "a", NoParam)
     /\ UNCHANGED writes
  \/ /\ Ready
     /\ \E caller \in ConcCallers, post_id \in PostIds : Like(caller, post_id)
     /\ UNCHANGED writes
  \/ /\ Ready
     /\ \E post \in PostIds : Comment_objects_create(1, post, "a")
     /\ UNCHANGED writes
  \/ Reply

SpecEdges == Init /\ [][NextEdges]_vars

\* ================================================================== claims

\* ------------------------------------------------------------------ C1
\* The step of a Follow request by account a on username u.
FollowStepOf(a, u) ==
  /\ resp = NoResp
  /\ resp'.view = "follow"
  /\ resp'.caller = a
  /\ resp'.username = u

\* C1: an account that asks to follow its own username is answered 400 "You
\* cannot follow yourself." and the Follow table is left as it was; no Follow
\* row ever has follower = following.
C1_SelfFollowRejected ==
  /\ [](\A i \in 1..Len(follows) : follows[i].follower # follows[i].following)
  /\ [][\A a \in Users :
          FollowStepOf(a, a) =>
            /\ resp'.status = 400
            /\ resp'.error = "You cannot follow yourself."
            /\ follows' = follows]_vars

\* A self-follow was refused while the graph holds edges.
C1_Witness ==
  /\ resp.view = "follow"
  /\ resp.caller \in Users
  /\ resp.username = resp.caller
  /\ resp.status = 400
  /\ resp.error = "You cannot follow yourself."
  /\ Len(follows) = MaxFollows

\* ------------------------------------------------------------------ C2
\* C2: the Follow table never holds two rows with the same follower and the
\* same following, whatever the interleaving of the queries of concurrent
\* follow and unfollow requests.
C2_FollowPairUnique ==
  \A i, j \in 1..Len(follows) : follows[i] = follows[j] => i = j

\* Two concurrent Follow(a, b) requests both missed the row; one has inserted
\* it and answered 201, the other's INSERT hit the unique constraint.
C2_Witness ==
  \E w1, w2 \in Workers :
    /\ w1 # w2
    /\ procs[w1].view = "follow" /\ procs[w1].pc = "done" /\ procs[w1].status = 201
    /\ procs[w2].view = "follow" /\ procs[w2].pc = "reget"
    /\ procs[w1].caller = procs[w2].caller
    /\ procs[w1].username = procs[w2].username
    /\ Count(follows, FollowRow(procs[w1].caller, procs[w1].username)) = 1

\* ------------------------------------------------------------------ C3
\* C3: for distinct accounts a and b, a Follow(a, b) request is answered 400
\* "You are already following this user." with the Follow table unchanged
\* when the row (a, b) exists, and 201 with exactly the row (a, b) added when
\* it does not.
C3_FollowOutcome ==
  [][\A a, b \in Users :
       (a # b /\ FollowStepOf(a, b)) =>
         IF \E i \in 1..Len(follows) : follows[i] = FollowRow(a, b)
           THEN /\ resp'.status = 400
                /\ resp'.error = "You are already following this user."
                /\ follows' = follows
           ELSE /\ resp'.status = 201
                /\ follows' = Append(follows, FollowRow(a, b))]_vars

\* A repeated follow was refused, the reverse edge being present too.
C3_Witness ==
  /\ resp.view = "follow"
  /\ resp.status = 400
  /\ resp.error = "You are already following this user."
  /\ \E i \in 1..Len(follows) : follows[i] = FollowRow(resp.caller, resp.username)
  /\ \E i \in 1..Len(follows) : follows[i] = FollowRow(resp.username, resp.caller)

\* ------------------------------------------------------------------ C4
\* The step of an Unfollow request by account a on username u.
UnfollowStepOf(a, u) ==
  /\ resp = NoResp
  /\ resp'.view = "unfollow"
  /\ resp'.caller = a
  /\ resp'.username = u

\* C4: an Unfollow(a, b) request is answered 400 "You are not following this
\* user." with the store unchanged when no row (a, b) exists, and 204 with the
\* row (a, b) gone, and every other row kept, when it exists.
C4_UnfollowOutcome ==
  [][\A a, b \in Users :
       UnfollowStepOf(a, b) =>
         IF \E i \in 1..Len(follows) : follows[i] = FollowRow(a, b)
           THEN /\ resp'.status = 204
                /\ \A i \in 1..Len(follows') : follows'[i] # FollowRow(a, b)
                /\ Range(follows') = Range(follows) \ {FollowRow(a, b)}
                /\ Len(follows') = Len(follows) - 1
           ELSE /\ resp'.status = 400
                /\ resp'.error = "You are not following this user."
                /\ dbvars' = dbvars]_vars

\* An unfollow succeeded and left another edge of the same follower in place.
C4_Witness ==
  /\ resp.view = "unfollow"
  /\ resp.status = 204
  /\ \E i \in 1..Len(follows) : follows[i].follower = resp.caller

\* ------------------------------------------------------------------ C5
LikesOf(a, p) == {r \in likes : r.user = a /\ r.post = p}

\* C5: for an account a and an existing post p, after n like requests of a on
\* p, served one after the other since p was created, a Like row (a, p) is
\* present iff n is odd; the n-th request is answered 201 when n is odd and
\* 204 when n is even; and there is never more than one Like row (a, p).
C5_ToggleParity ==
  /\ \A a \in Users, p \in PostIds :
       /\ Cardinality(LikesOf(a, p)) <= 1
       /\ (\E q \in posts : q.id = p) =>
            (LikesOf(a, p) # {} <=> toggles[<<a, p>>] % 2 = 1)
  /\ (resp.view = "like" /\ resp.caller \in Users /\ resp.status \in {201, 204}) =>
       LET n == toggles[<<resp.caller, resp.post_id>>]
       IN  /\ n % 2 = 1 => resp.status = 201 /\ resp.error = "Post liked."
           /\ n % 2 = 0 => resp.status = 204 /\ resp.error = "Post unliked."

\* The fourth like request of an account on a post was answered "unliked".
C5_Witness ==
  /\ resp.view = "like"
  /\ resp.status = 204
  /\ \E p \in posts : p.id = resp.post_id
  /\ toggles[<<resp.caller, resp.post_id>>] = 4
  /\ LikesOf(resp.caller, resp.post_id) = {}

\* ------------------------------------------------------------------ C6
\* C6: a post's content and existence are only ever changed by its author: a
\* request that alters or removes a Post row is a request of the row's user.
C6_OnlyAuthorChangesPost ==
  [][\A p \in posts : p \notin posts' => resp'.caller = p.user]_vars

\* ------------------------------------------------------------------ C7
\* The endpoints that require authentication: all but the reads of posts.
AuthRequired(r) ==
  \/ r.view \in {"profile", "search", "follow", "unfollow", "following", "followers",
                 "following-posts", "own-posts", "search-posts", "like", "comments",
                 "comment"}
  \/ r.view \in {"posts", "post"} /\ r.method \in {"POST", "PUT", "PATCH", "DELETE"}

\* C7: a request without credentials to an endpoint that requires
\* authentication is answered 401 and leaves accounts, follow edges, posts,
\* likes and comments as they were.
C7_UnauthenticatedRefused ==
  [][(resp = NoResp /\ resp' # NoResp /\ resp'.caller = Anonymous /\ AuthRequired(resp')) =>
       /\ resp'.status = 401
       /\ dbvars' = dbvars]_vars

\* An anonymous like request was refused while the post holds a like.
C7_Witness ==
  /\ resp.view = "like"
  /\ resp.caller = Anonymous
  /\ resp.status = 401
  /\ \E r \in likes : r.post = resp.post_id

\* ------------------------------------------------------------------ C8
\* C8: the user of every Post row is the caller whose POST /posts request
\* created the row, whatever user the payload named and whatever updates
\* followed.
C8_AuthorIsCreator ==
  \A p \in posts : p.user \in Users /\ p.user = creator[p.id]

\* A post was updated, by an account other than the one that created it.
C8_Witness ==
  /\ resp.view = "post"
  /\ resp.method \in Methods
  /\ resp.status = 200
  /\ \E p \in posts : p.id = resp.post_id /\ creator[p.id] # resp.caller

\* ------------------------------------------------------------------ C9
\* The accounts on the far side of the edges of account a, in the order in
\* which the edges were created.
FollowingInCreationOrder(a) ==
  LET rows == SelectSeq(follows, LAMBDA r : r.follower = a)
  IN  [i \in 1..Len(rows) |-> rows[i].following]

FollowersInCreationOrder(a) ==
  LET rows == SelectSeq(follows, LAMBDA r : r.following = a)
  IN  [i \in 1..Len(rows) |-> rows[i].follower]

\* C9 as stated: GET /following and GET /followers list the accounts in
\* ascending order of the creation of the corresponding Follow row.
C9_CreationOrder ==
  /\ (resp.view = "following" /\ resp.status = 200) =>
       resp.data = FollowingInCreationOrder(resp.caller)
  /\ (resp.view = "followers" /\ resp.status = 200) =>
       resp.data = FollowersInCreationOrder(resp.caller)

\* C9, without the order: GET /following (resp. /followers) lists exactly the accounts
\* the caller follows (resp. that follow the caller), each once; the order is
\* that of an unordered query on the account table.
C9_ExactAccounts ==
  /\ (resp.view = "following" /\ resp.status = 200) =>
       /\ Range(resp.data) =
            {u \in Users : \E i \in 1..Len(follows) : follows[i] = FollowRow(resp.caller, u)}
       /\ \A i, j \in 1..Len(resp.data) : resp.data[i] = resp.data[j] => i = j
  /\ (resp.view = "followers" /\ resp.status = 200) =>
       /\ Range(resp.data) =
            {u \in Users : \E i \in 1..Len(follows) : follows[i] = FollowRow(u, resp.caller)}
       /\ \A i, j \in 1..Len(resp.data) : resp.data[i] = resp.data[j] => i = j

\* A following list of two accounts that is not in the order of creation of
\* the edges.
C9_Witness ==
  /\ resp.view = "following"
  /\ resp.status = 200
  /\ Len(resp.data) = 2
  /\ resp.data # FollowingInCreationOrder(resp.caller)

\* ----------------------------------------------------------------- C10
\* C10: GET /following-posts lists exactly the posts whose author the caller
\* currently follows, each once, and never a post of the caller.
C10_FollowingFeed ==
  (resp.view = "following-posts" /\ resp.status = 200) =>
    /\ Range(resp.data) =
         {p.id : p \in {q \in posts :
                          \E i \in 1..Len(follows) :
                            follows[i] = FollowRow(resp.caller, q.user)}}
    /\ \A i, j \in 1..Len(resp.data) : resp.data[i] = resp.data[j] => i = j
    /\ \A p \in posts : p.user = resp.caller =>
         \A i \in 1..Len(resp.data) : resp.data[i] # p.id

\* The feed of an account shows the post of an author it follows, while the
\* author follows the account back.
C10_Witness ==
  /\ resp.view = "following-posts"
  /\ resp.status = 200
  /\ Len(resp.data) = 1
  /\ \E p \in posts :
       /\ p.id = resp.data[1]
       /\ \E i \in 1..Len(follows) : follows[i] = FollowRow(p.user, resp.caller)

\* ----------------------------------------------------------------- C11
\* C11: GET /posts without credentials and without a username filter is
\* answered 200 with all stored posts, of every author; GET /posts/{id} of an
\* existing post without credentials is answered 200 with that post.
C11_AnonymousReadsAllPosts ==
  /\ (resp.view = "posts" /\ resp.method = "GET" /\ resp.caller = Anonymous
        /\ resp.username = NoParam) =>
       /\ resp.status = 200
       /\ Range(resp.data) = {p.id : p \in posts}
  /\ (resp.view = "post" /\ resp.method = "GET" /\ resp.caller = Anonymous
        /\ resp.username = NoParam /\ \E p \in posts : p.id = resp.post_id) =>
       /\ resp.status = 200
       /\ resp.data = <<resp.post_id>>

\* ----------------------------------------------------------------- C12
\* The workers whose request is Follow(a, b).
FollowWorkers(a, b) ==
  {w \in Workers : procs[w].view = "follow" /\ procs[w].caller = a /\ procs[w].username = b}

\* C12: when the Follow(a, b) requests for an edge that does not exist yet run
\* concurrently, whatever the interleaving of their queries, no request ends
\* in a 500; and once they have all answered, exactly one row (a, b) exists,
\* exactly one request was answered 201 and every other one 400 "You are
\* already following this user."
C12_RaceDegradesToAlreadyFollowing ==
  /\ \A w \in Workers : procs[w].status # 500
  /\ \A a, b \in Users :
       (a # b /\ FollowWorkers(a, b) # {}
          /\ \A w \in FollowWorkers(a, b) : procs[w].pc = "done") =>
         /\ Count(follows, FollowRow(a, b)) = 1
         /\ Cardinality({w \in FollowWorkers(a, b) : procs[w].status = 201}) = 1
         /\ \A w \in FollowWorkers(a, b) :
              procs[w].status # 201 =>
                /\ procs[w].status = 400
                /\ procs[w].error = "You are already following this user."

\* Two requests for the same missing edge both missed the row in their first
\* SELECT; one inserted it, the INSERT of the other has just been refused by
\* the unique constraint.
C12_Witness ==
  \E a, b \in Users :
    /\ a # b
    /\ Cardinality(FollowWorkers(a, b)) >= 2
    /\ \E w \in FollowWorkers(a, b) : procs[w].pc = "done" /\ procs[w].status = 201
    /\ \E w \in FollowWorkers(a, b) : procs[w].pc = "reget"
    /\ Len(follows) = 1

\* ----------------------------------------------------------------- C13
\* C13: POST /comments by an authenticated caller, with a body that names an
\* existing post and a content, is answered 201 and has stored one Comment
\* row, on that post, whose user is the caller.
C13_CommentCreated ==
  (resp.view = "comments" /\ resp.method = "POST" /\ resp.caller \in Users
     /\ resp.content # "" /\ \E p \in posts : p.id = resp.post_id) =>
    /\ resp.status = 201
    /\ Len(resp.data) = 1
    /\ \E c \in comments :
         /\ c.id = resp.data[1]
         /\ c.post = resp.post_id
         /\ c.user = resp.caller
         /\ c.content = resp.content

\* ----------------------------------------------------------------- C14
\* C14: GET /comments with post_id = P by an authenticated caller lists
\* exactly the comments whose post is P: every comment on P, and no comment
\* on another post.
C14_CommentsOfPost ==
  (resp.view = "comments" /\ resp.method = "GET" /\ resp.caller \in Users) =>
    /\ resp.status = 200
    /\ Range(resp.data) = {c.id : c \in {d \in comments : d.post = resp.post_id}}

\* ----------------------------------------------------------------- C15
\* The posts the deferred tasks have created.
ScheduledPosts == UNION {queue[i].posts : i \in 1..Len(queue)}

\* C15: a schedule request whose schedule_time is earlier than the server
\* clock at submission is answered 400 and enqueues no task and creates no
\* post; no task on the queue stems from such a request, and every post is the
\* work of a task on the queue, so that no post is ever created for it.
C15_PastScheduleRejected ==
  /\ [](\A i \in 1..Len(queue) : queue[i].eta >= queue[i].accepted_at)
  /\ []({p.id : p \in posts} = ScheduledPosts)
  /\ [][(resp = NoResp /\ resp'.view = "schedule-post" /\ resp'.caller \in Users
           /\ resp'.data[1] < clock) =>
          /\ resp'.status = 400
          /\ queue' = queue
          /\ posts' = posts]_vars

\* A request for a time in the past was refused, after an earlier request had
\* been accepted and its post created.
C15_Witness ==
  /\ resp.view = "schedule-post"
  /\ resp.caller \in Users
  /\ resp.status = 400
  /\ resp.data[1] < clock
  /\ Len(queue) = 1
  /\ queue[1].posts # {}

\* ----------------------------------------------------------------- C16
\* C16: the post of an accepted schedule request for time T exists in no
\* state whose clock is before T, in particular not right after acceptance;
\* a post is created only by a run of the deferred task at or after T.
C16_NotBeforeScheduleTime ==
  /\ [](\A i \in 1..Len(queue) : clock < queue[i].eta => queue[i].posts = {})
  /\ [][posts' # posts =>
          \E i \in 1..Len(queue) :
            /\ clock >= queue[i].eta
            /\ queue'[i].runs = queue[i].runs + 1
            /\ queue'[i].posts # queue[i].posts]_vars

\* A request for a future time was accepted, the clock has reached that time
\* and the task has created the post.
C16_Witness ==
  \E i \in 1..Len(queue) :
    /\ queue[i].eta > queue[i].accepted_at
    /\ clock >= queue[i].eta
    /\ queue[i].posts # {}
    /\ \E p \in posts : p.id \in queue[i].posts /\ p.user = queue[i].user_id

\* ----------------------------------------------------------------- C17
\* C17: the deferred task of an accepted schedule request never creates more
\* than one post, also when the queue delivers the task more than once.
C17_AtMostOnePostPerRequest ==
  \A i \in 1..Len(queue) : Cardinality(queue[i].posts) <= 1

\* ----------------------------------------------------------------- C18
\* C18: a request that refers to a missing resource is answered with a 4xx
\* response, never with an unhandled fault: a like of an absent post id is
\* answered 404, and a list of posts filtered by an unknown username and a
\* comment on an absent post are answered with a status between 400 and 499.
C18_MissingResourceIs4xx ==
  /\ (resp.view = "like" /\ resp.caller \in Users
        /\ ~\E p \in posts : p.id = resp.post_id) =>
       resp.status = 404
  /\ (resp.view = "posts" /\ resp.method = "GET" /\ resp.username # NoParam
        /\ UserByUsername(resp.username) = NoUser) =>
       resp.status \in 400..499
  /\ (resp.view = "comments" /\ resp.method = "POST" /\ resp.caller \in Users
        /\ ~\E p \in posts : p.id = resp.post_id) =>
       resp.status \in 400..499

\* ----------------------------------------------------------------- C19
\* The workers whose request is a like of post p by account a, and those
\* whose request is Unfollow(a, b).
LikeWorkers(a, p) ==
  {w \in Workers : procs[w].view = "like" /\ procs[w].caller = a /\ procs[w].post_id = p}

UnfollowWorkers(a, b) ==
  {w \in Workers : procs[w].view = "unfollow" /\ procs[w].caller = a
                     /\ procs[w].username = b}

\* C19: concurrent toggles of the same edge end as some serial execution of
\* them does.  For n concurrent like requests of account a on post p, the
\* like being present at their start iff the requests served before were odd
\* in number: the like is present at the end iff the requests served before
\* plus n are odd in number, and the "unliked" answers are the n / 2 rounded
\* up when the like was present and rounded down when it was absent, all
\* other answers being "liked".  For concurrent Unfollow(a, b) requests: at
\* most one is answered 204, the others 400, and the edge is absent.
C19_TogglesSerializable ==
  /\ \A a \in Users, p \in PostIds :
       LET W == LikeWorkers(a, p)
           n == Cardinality(W)
           before == toggles[<<a, p>>]
           unliked == Cardinality({w \in W : procs[w].status = 204})
           liked == Cardinality({w \in W : procs[w].status = 201})
       IN  (W # {} /\ (\E q \in posts : q.id = p) /\ \A w \in W : procs[w].pc = "done") =>
             /\ liked + unliked = n
             /\ unliked = (IF before % 2 = 1 THEN (n + 1) \div 2 ELSE n \div 2)
             /\ (\E r \in likes : r.user = a /\ r.post = p) <=> (before + n) % 2 = 1
  /\ \A a, b \in Users :
       LET W == UnfollowWorkers(a, b)
       IN  (W # {} /\ \A w \in W : procs[w].pc = "done") =>
             /\ Cardinality({w \in W : procs[w].status = 204}) <= 1
             /\ \A w \in W : procs[w].status \in {204, 400}
             /\ ~\E i \in 1..Len(follows) : follows[i] = FollowRow(a, b)

\* ----------------------------------------------------------------- C20
\* C20: a follow or unfollow request of account a on username b leaves every
\* Follow row other than (a, b) as it was, and the likes too; a like request
\* of a on post p leaves every Like row other than (a, p) as it was, and the
\* follow edges too; all three leave accounts, posts and comments as they
\* were, whatever their answer.
C20_OnlyOwnEdgeTouched ==
  [][/\ (resp = NoResp /\ resp'.view \in {"follow", "unfollow"}) =>
          LET own == FollowRow(resp'.caller, UserByUsername(resp'.username))
          IN  /\ SelectSeq(follows', LAMBDA r : r # own)
                   = SelectSeq(follows, LAMBDA r : r # own)
              /\ likes' = likes
              /\ <<bio, posts, comments>>' = <<bio, posts, comments>>
     /\ (resp = NoResp /\ resp'.view = "like") =>
          /\ {r \in likes' : r.user # resp'.caller \/ r.post # resp'.post_id}
               = {r \in likes : r.user # resp'.caller \/ r.post # resp'.post_id}
          /\ follows' = follows
          /\ <<bio, posts, comments>>' = <<bio, posts, comments>>]_vars

\* An account took its like back from a post that another account likes too,
\* while follow edges and a comment are stored.
C20_Witness ==
  /\ resp.view = "like"
  /\ resp.status = 204
  /\ \E r \in likes : r.post = resp.post_id /\ r.user # resp.caller
  /\ follows # <<>>
  /\ comments # {}

\* ----------------------------------------------------------------- C21
\* C21: a comment is owned by its author.  A request that alters or removes a
\* Comment row is an update or delete of /comments/{id} by the row's user, or
\* the deletion of the row's post; and the row of a comment keeps its user
\* through every update.
C21_OnlyAuthorChangesComment ==
  [][/\ \A c \in comments :
          c \notin comments' =>
            \/ resp'.view = "comment" /\ resp'.caller = c.user
            \/ /\ \E p \in posts : p.id = c.post
               /\ ~\E p \in posts' : p.id = c.post
     /\ \A c \in comments, d \in comments' : d.id = c.id => d.user = c.user]_vars

====
